---- MODULE Spec2Model ----
(***************************************************************************)
(* Crew certification expiry notifier (crew_notifier.py) and the two       *)
(* report writers (finalcheck.py, membersdata.py).                         *)
(*                                                                         *)
(* Python values are records [t, s, n]: t is the Python type, s the text   *)
(* of a str, n the value of an int.  A document number is a sequence of    *)
(* characters; a date string is the sequence of its '-'-separated fields.  *)
(* Time is counted in half days from 01-Jan-2025 00:00.                    *)
(***************************************************************************)
EXTENDS Integers, Sequences, FiniteSets, TLC

\* ---------------------------------------------------------------- bounds
MaxDocs == 2
MaxClock == 3
MaxRuns == 2

\* ------------------------------------------------------- Python values
PyNone == [t |-> "None", s |-> <<>>, n |-> 0]
PyStr(chars) == [t |-> "str", s |-> chars, n |-> 0]
PyInt(k) == [t |-> "int", s |-> <<>>, n |-> k]

\* bool(v) as Python's `if v:` / `if not v:` evaluates it
Truthy(v) ==
    \/ v.t = "str" /\ v.s # <<>>
    \/ v.t = "int" /\ v.n # 0

\* str.replace(old, new) for one-character old and new
Replace(chars, old, new) ==
    [i \in DOMAIN chars |-> IF chars[i] = old THEN new ELSE chars[i]]

\* --------------------------------------------------------------- dates
DayOf == ("01" :> 1) @@ ("02" :> 2) @@ ("31" :> 31)
MonthOf == ("Jan" :> 1) @@ ("Feb" :> 2)
YearOf == ("2024" :> 2024) @@ ("2025" :> 2025)
DaysIn(m, y) == IF m = 1 THEN 31 ELSE IF y % 4 = 0 THEN 29 ELSE 28
DaysBefore(m, y) == IF m = 1 THEN 0 ELSE 31
DaysBeforeYear(y) == IF y = 2025 THEN 0 ELSE 0 - 366

\* DATE_FORMAT = '%d-%b-%Y'
DATE_FORMAT == <<"d", "b", "Y">>

\* datetime.strptime(v, DATE_FORMAT): the midnight of the date, or the
\* exception raised (TypeError for a non-str, ValueError for a str that
\* does not match the format or names no calendar day)
strptime(v) ==
    IF v.t # "str" THEN [exc |-> "TypeError", dt |-> 0]
    ELSE IF \/ Len(v.s) # Len(DATE_FORMAT)
            \/ v.s[1] \notin DOMAIN DayOf
            \/ v.s[2] \notin DOMAIN MonthOf
            \/ v.s[3] \notin DOMAIN YearOf
         THEN [exc |-> "ValueError", dt |-> 0]
    ELSE LET d == DayOf[v.s[1]]
             m == MonthOf[v.s[2]]
             y == YearOf[v.s[3]]
         IN  IF d > DaysIn(m, y) THEN [exc |-> "ValueError", dt |-> 0]
             ELSE [exc |-> "none",
                   dt |-> 2 * (DaysBeforeYear(y) + DaysBefore(m, y) + d - 1)]

\* datetime.now().strftime("%Y-%m-%d") when the clock shows `tick`
strftime(tick) == <<"2025", "01", IF tick \div 2 = 0 THEN "01"
                                  ELSE IF tick \div 2 = 1 THEN "02"
                                  ELSE "03+">>

\* ----------------------------------------------------------- documents
Doc(isdict, title, expiry, number) ==
    [isdict |-> isdict, document_certificate |-> title,
     expiry_date |-> expiry, document_number |-> number]

Jan01 == PyStr(<<"01", "Jan", "2025">>)
Jan02 == PyStr(<<"02", "Jan", "2025">>)

dA       == Doc(TRUE, "COC", Jan01, PyStr(<<"A", ".", "1">>))
dB       == Doc(TRUE, "Medical", Jan02, PyStr(<<"A", "/", "1">>))
dHash    == Doc(TRUE, "Visa", PyStr(<<"31", "Jan", "2024">>),
                PyStr(<<"A", ".", "1", "/", "2", "#", "3">>))
dNoNum   == Doc(TRUE, "Passport", Jan01, PyNone)
dEmpty   == Doc(TRUE, "STCW", PyStr(<<>>), PyStr(<<"B", "9">>))
dMissing == Doc(TRUE, "GMDSS", PyNone, PyStr(<<"B", "9">>))
dBad     == Doc(TRUE, "Yellow", PyStr(<<"2025", "01", "01">>), PyStr(<<"B", "9">>))
dNoDay   == Doc(TRUE, "Tanker", PyStr(<<"31", "Feb", "2025">>), PyStr(<<"B", "9">>))
dIntDate == Doc(TRUE, "Radar", PyInt(20250101), PyStr(<<"B", "9">>))
dIntNum  == Doc(TRUE, "SeamanBook", Jan01, PyInt(84047))
dNonDict == Doc(FALSE, "", PyNone, PyNone)

RECURSIVE SeqsUpTo(_, _)
SeqsUpTo(S, k) ==
    IF k = 0 THEN {<<>>}
    ELSE LET shorter == SeqsUpTo(S, k - 1)
         IN  shorter \cup {Append(q, x) : q \in {r \in shorter : Len(r) = k - 1}, x \in S}

\* -------------------------------------------------------------- roster
Member(isdict, email, documents) ==
    [isdict |-> isdict, email |-> email, documents |-> documents]

\* iteration order of all_crew_data.items()
CrewOrder == <<"c1", "c2">>
CrewIds == {CrewOrder[i] : i \in DOMAIN CrewOrder}

NotifierPool == {dA, dB, dNoNum, dIntNum}

FirstMembers ==
    {Member(TRUE, PyStr(<<"c1@x">>), ds) : ds \in SeqsUpTo(NotifierPool, MaxDocs)}

SecondMembers ==
    {Member(TRUE, PyStr(<<"c2@x">>), <<dHash>>),
     Member(TRUE, PyNone, <<dHash>>),
     Member(FALSE, PyNone, <<>>)}

Rosters == {("c1" :> a) @@ ("c2" :> b) : a \in FirstMembers, b \in SecondMembers}

\* ------------------------------------------------------------- ledger
\* mutant: the '#' of a document number is left in the key
notification_id_no_hash(doc_number) ==
    <<"EXPIRED_">> \o Replace(Replace(doc_number.s, ".", "_"), "/", "_")

\* safe_doc_number / notification_id as computed before the existence check
notification_id(doc_number) ==
    <<"EXPIRED_">> \o Replace(Replace(Replace(doc_number.s, ".", "_"), "/", "_"), "#", "_")

\* mutant: the write forgets to sanitise the document number
logged_notification_id_raw(doc_number) == <<"EXPIRED_">> \o doc_number.s

\* safe_doc_number / notification_id as computed again before the write
logged_notification_id(doc_number) ==
    <<"EXPIRED_">> \o Replace(Replace(Replace(doc_number.s, ".", "_"), "/", "_"), "#", "_")

\* mutant: a date that does not parse counts as expired
is_expired_unparsed(doc, now_) ==
    IF ~Truthy(doc.expiry_date) THEN "not_expired"
    ELSE LET r == strptime(doc.expiry_date)
         IN  IF r.exc # "none" THEN "expired"
             ELSE IF r.dt < now_ THEN "expired" ELSE "not_expired"

\* the documents' own classification step of the notifier:
\* "expired", "not_expired", or "skip" (malformed date, `continue`)
is_expired(doc, now_) ==
    IF ~Truthy(doc.expiry_date) THEN "not_expired"
    ELSE LET r == strptime(doc.expiry_date)
         IN  IF r.exc # "none" THEN "skip"
             ELSE IF r.dt < now_ THEN "expired" ELSE "not_expired"

\* mutant: the `if not doc_number: continue` guard is missing and the key is
\* built from whatever text the number has
DocDecision_no_guard(doc, now_) ==
    IF ~doc.isdict THEN "ignore"
    ELSE IF is_expired(doc, now_) # "expired" THEN "ignore"
    ELSE IF doc.document_number.t = "int" THEN "AttributeError"
    ELSE "check"

\* lines 122-141: what the loop body decides for one entry of `documents`
\* before it touches the ledger
DocDecision(doc, now_) ==
    IF ~doc.isdict THEN "ignore"
    ELSE IF is_expired(doc, now_) # "expired" THEN "ignore"
    ELSE IF ~Truthy(doc.document_number) THEN "untrackable"
    ELSE IF doc.document_number.t # "str" THEN "AttributeError"
    ELSE "check"

\* mutant: the existence check never finds an entry
log_ref_get_blind(log, crew_id, key, store_up) ==
    IF ~store_up THEN "raise" ELSE "None"

\* mutant: an unavailable store is read as "no entry"
log_ref_get_swallow(log, crew_id, key, store_up) ==
    IF store_up /\ \E e \in log : e.crew_id = crew_id /\ e.key = key THEN "value"
    ELSE "None"

\* log_ref.get(): the stored value's presence, or the store's exception
log_ref_get(log, crew_id, key, store_up) ==
    IF ~store_up THEN "raise"
    ELSE IF \E e \in log : e.crew_id = crew_id /\ e.key = key THEN "value"
    ELSE "None"

\* mutant: the entry is written outside the member's notification_log
log_ref_set_misplaced(log, crew_id, key, value) ==
    log \cup {[crew_id |-> "", key |-> key, value |-> value]}

\* mutant: the write is lost
log_ref_set_lost(log, crew_id, key, value) == log

\* log_ref.set(value): the entry at this path is replaced
log_ref_set(log, crew_id, key, value) ==
    {e \in log : ~(e.crew_id = crew_id /\ e.key = key)}
        \cup {[crew_id |-> crew_id, key |-> key, value |-> value]}

\* mutant: the test of send_email's result is inverted
dispatch_ok_inverted(body, send_result) == Truthy(body) /\ ~send_result

\* mutant: the result of send_email is ignored
dispatch_ok_unchecked(body, send_result) == Truthy(body)

\* `if email_body and send_email(email, subject, email_body)`
dispatch_ok(body, send_result) == Truthy(body) /\ send_result

\* --------------------------------------------------------------- state
Procs == {1, 2}

VARIABLES
    all_crew_data,      \* the roster under CREW_DATA_PATH
    notification_log,   \* the ledger: entries [crew_id, key, value]
    clock,              \* the wall clock, datetime.now()
    runs,               \* runs started so far
    sent,               \* history: emails confirmed sent [run, crew_id, batch]
    store_failed,       \* history: some ledger operation has raised
    pc,                 \* per run: position in analyze_and_notify_crew
    run_id,             \* per run: its number
    now,                \* per run: `now`
    mi,                 \* per run: index of the crew member in the for loop
    di,                 \* per run: index of the document in the inner loop
    expired_certs_to_notify, \* per run: indices of the documents to notify
    email_body,         \* per run: the generated body
    li,                 \* per run: index in the logging loop
    log_at_start,       \* per run: the ledger when the run started
    processed,          \* per run: members whose loop iteration completed
    failed,             \* per run: members whose processing raised
    dispatch_failed,    \* per run: members with no body generated or no email sent
    check_failed,       \* per run: members whose existence check raised
    suppressed,         \* per run: [crew_id, doc, key] skipped as already notified
    seen_to_notify,     \* per run: [crew_id, doc, key] ever appended to the list
    dispatched,         \* per run: members for whom text generation was called
    emailed,            \* per run: members whose email was confirmed sent
    written,            \* per run: ledger writes [crew_id, doc, key, at, replaced]
    attempted,          \* per run: dispatches attempted [crew_id, batch, lines]
    no_body,            \* per run: members for whom text generation failed
    prev_failed,        \* per run: the dispatches [crew_id, batch] that failed in
                        \* the run before, if that run had the same reference time
    overlaps,           \* history: pairs of runs that were under way together
    notifier_view,      \* the notifier's expiry test applied to a whole roster
    finalcheck_report,  \* certification_analysis_report.json as finalcheck.py wrote it
    finalcheck_emailed, \* members finalcheck.py's last run sent an email to
    finalcheck_no_body, \* members finalcheck.py's last run got no text for
    membersdata_report  \* certification_analysis.json as membersdata.py wrote it

globals == <<all_crew_data, notification_log, clock, runs, sent, store_failed>>
locals == <<pc, run_id, now, mi, di, expired_certs_to_notify, email_body, li>>
ghosts == <<log_at_start, processed, failed, dispatch_failed, check_failed, suppressed,
            seen_to_notify, dispatched, emailed, written>>
history == <<attempted, no_body, prev_failed, overlaps>>
reports == <<notifier_view, finalcheck_report, finalcheck_emailed, finalcheck_no_body,
             membersdata_report>>
vars == <<globals, locals, ghosts, history, reports>>

Running(p) == pc[p] \in {"member", "docs", "generate", "send", "log"}

NoReport == [written |-> FALSE, time |-> 0, results |-> <<>>]

InitRest ==
    /\ notification_log = {}
    /\ runs = 0
    /\ sent = {}
    /\ store_failed = FALSE
    /\ pc = [p \in Procs |-> "idle"]
    /\ run_id = [p \in Procs |-> 0]
    /\ now = [p \in Procs |-> 0]
    /\ mi = [p \in Procs |-> 0]
    /\ di = [p \in Procs |-> 0]
    /\ expired_certs_to_notify = [p \in Procs |-> <<>>]
    /\ email_body = [p \in Procs |-> PyNone]
    /\ li = [p \in Procs |-> 0]
    /\ log_at_start = [p \in Procs |-> {}]
    /\ processed = [p \in Procs |-> {}]
    /\ failed = [p \in Procs |-> {}]
    /\ dispatch_failed = [p \in Procs |-> {}]
    /\ check_failed = [p \in Procs |-> {}]
    /\ suppressed = [p \in Procs |-> {}]
    /\ seen_to_notify = [p \in Procs |-> {}]
    /\ dispatched = [p \in Procs |-> {}]
    /\ emailed = [p \in Procs |-> {}]
    /\ written = [p \in Procs |-> {}]
    /\ attempted = [p \in Procs |-> {}]
    /\ no_body = [p \in Procs |-> {}]
    /\ prev_failed = [p \in Procs |-> {}]
    /\ overlaps = {}
    /\ notifier_view = NoReport
    /\ finalcheck_report = NoReport
    /\ finalcheck_emailed = {}
    /\ finalcheck_no_body = {}
    /\ membersdata_report = NoReport

Init ==
    /\ all_crew_data \in Rosters
    /\ clock = 0
    /\ InitRest

\* the wall clock advances
Tick ==
    /\ clock < MaxClock
    /\ clock' = clock + 1
    /\ UNCHANGED <<all_crew_data, notification_log, runs, sent, store_failed>>
    /\ UNCHANGED <<locals, ghosts, history, reports>>

\* ------------------------------------------------- analyze_and_notify_crew
crew_id_of(p) == CrewOrder[mi[p]]
documents_of(p) == all_crew_data[crew_id_of(p)].documents

\* the run leaves the function: by return / falling off the end ("done")
\* or by an exception nobody catches ("crashed")
Leave(p, how) ==
    /\ pc' = [pc EXCEPT ![p] = how]
    /\ mi' = [mi EXCEPT ![p] = 0]
    /\ di' = [di EXCEPT ![p] = 0]
    /\ expired_certs_to_notify' = [expired_certs_to_notify EXCEPT ![p] = <<>>]
    /\ email_body' = [email_body EXCEPT ![p] = PyNone]
    /\ li' = [li EXCEPT ![p] = 0]
    /\ UNCHANGED <<run_id, now>>

\* the for loop over the crew goes on to its next iteration
Continue(p) ==
    /\ pc' = [pc EXCEPT ![p] = "member"]
    /\ mi' = [mi EXCEPT ![p] = mi[p] + 1]
    /\ di' = [di EXCEPT ![p] = 0]
    /\ expired_certs_to_notify' = [expired_certs_to_notify EXCEPT ![p] = <<>>]
    /\ email_body' = [email_body EXCEPT ![p] = PyNone]
    /\ li' = [li EXCEPT ![p] = 0]
    /\ processed' = [processed EXCEPT ![p] = processed[p] \cup {crew_id_of(p)}]
    /\ UNCHANGED <<run_id, now>>

\* lines 83-103: initialise, fetch the roster, take the reference time
Start(p) ==
    /\ UNCHANGED reports
    /\ ~Running(p)
    /\ runs < MaxRuns
    /\ runs' = runs + 1
    /\ run_id' = [run_id EXCEPT ![p] = runs + 1]
    /\ now' = [now EXCEPT ![p] = clock]
    /\ log_at_start' = [log_at_start EXCEPT ![p] = notification_log]
    /\ processed' = [processed EXCEPT ![p] = {}]
    /\ failed' = [failed EXCEPT ![p] = {}]
    /\ dispatch_failed' = [dispatch_failed EXCEPT ![p] = {}]
    /\ check_failed' = [check_failed EXCEPT ![p] = {}]
    /\ suppressed' = [suppressed EXCEPT ![p] = {}]
    /\ seen_to_notify' = [seen_to_notify EXCEPT ![p] = {}]
    /\ dispatched' = [dispatched EXCEPT ![p] = {}]
    /\ emailed' = [emailed EXCEPT ![p] = {}]
    /\ written' = [written EXCEPT ![p] = {}]
    /\ attempted' = [attempted EXCEPT ![p] = {}]
    /\ no_body' = [no_body EXCEPT ![p] = {}]
    /\ prev_failed' = [prev_failed EXCEPT ![p] =
          IF clock = now[p]
          THEN {a \in attempted[p] : a.crew_id \in dispatch_failed[p]}
          ELSE {}]
    /\ overlaps' = overlaps \cup {{runs + 1, run_id[q]} : q \in {r \in Procs : Running(r)}}
    /\ \E outcome \in {"ok", "init_error", "fetch_error"} :
          pc' = [pc EXCEPT ![p] =
                    IF outcome = "fetch_error" THEN "crashed"
                    ELSE IF outcome = "init_error" \/ DOMAIN all_crew_data = {} THEN "done"
                    ELSE "member"]
    /\ mi' = [mi EXCEPT ![p] = IF pc'[p] = "member" THEN 1 ELSE 0]
    /\ di' = [di EXCEPT ![p] = 0]
    /\ expired_certs_to_notify' = [expired_certs_to_notify EXCEPT ![p] = <<>>]
    /\ email_body' = [email_body EXCEPT ![p] = PyNone]
    /\ li' = [li EXCEPT ![p] = 0]
    /\ UNCHANGED <<all_crew_data, notification_log, clock, sent, store_failed>>

\* lines 105-120: the head of one iteration of the loop over the crew
NextMember(p) ==
    /\ UNCHANGED reports
    /\ pc[p] = "member"
    /\ IF mi[p] > Len(CrewOrder)
       THEN /\ Leave(p, "done")
            /\ UNCHANGED <<processed, failed>>
       ELSE LET crew_data == all_crew_data[crew_id_of(p)]
            IN  IF ~crew_data.isdict
                THEN \* crew_data.get raises AttributeError
                     /\ Leave(p, "crashed")
                     /\ failed' = [failed EXCEPT ![p] = failed[p] \cup {crew_id_of(p)}]
                     /\ UNCHANGED processed
                ELSE IF ~Truthy(crew_data.email) \/ crew_data.documents = <<>>
                THEN /\ Continue(p)
                     /\ UNCHANGED failed
                ELSE /\ pc' = [pc EXCEPT ![p] = "docs"]
                     /\ di' = [di EXCEPT ![p] = 1]
                     /\ UNCHANGED <<run_id, now, mi, expired_certs_to_notify,
                                    email_body, li, processed, failed>>
    /\ UNCHANGED globals
    /\ UNCHANGED <<log_at_start, dispatch_failed, check_failed, suppressed,
                   seen_to_notify, dispatched, emailed, written>>
    /\ UNCHANGED history

\* line 155: after the inner loop, dispatch if there is something to notify
AfterDocs(p, to_notify) ==
    IF to_notify # <<>>
    THEN /\ pc' = [pc EXCEPT ![p] = "generate"]
         /\ expired_certs_to_notify' = [expired_certs_to_notify EXCEPT ![p] = to_notify]
         /\ UNCHANGED <<run_id, now, mi, di, email_body, li, processed>>
    ELSE Continue(p)

\* the inner loop goes on with the list as it now is
DocDone(p, to_notify) ==
    IF di[p] < Len(documents_of(p))
    THEN /\ di' = [di EXCEPT ![p] = di[p] + 1]
         /\ expired_certs_to_notify' = [expired_certs_to_notify EXCEPT ![p] = to_notify]
         /\ UNCHANGED <<pc, run_id, now, mi, email_body, li, processed>>
    ELSE AfterDocs(p, to_notify)

\* lines 122-152: one iteration of the loop over the documents
DocStep(p) ==
    /\ UNCHANGED reports
    /\ pc[p] = "docs"
    /\ LET doc == documents_of(p)[di[p]]
           decision == DocDecision(doc, now[p])
           here == [crew_id |-> crew_id_of(p), doc |-> di[p],
                    key |-> notification_id(doc.document_number)]
       IN  IF decision = "AttributeError"
           THEN \* doc_number.replace on a value that is no str
                /\ Leave(p, "crashed")
                /\ failed' = [failed EXCEPT ![p] = failed[p] \cup {crew_id_of(p)}]
                /\ UNCHANGED <<processed, check_failed, suppressed,
                               seen_to_notify, store_failed>>
           ELSE IF decision = "check"
           THEN \E store_up \in BOOLEAN :
                  LET got == log_ref_get(notification_log, crew_id_of(p),
                                         notification_id(doc.document_number), store_up)
                  IN  /\ store_failed' = (store_failed \/ ~store_up)
                      /\ check_failed' = [check_failed EXCEPT ![p] =
                            IF store_up THEN check_failed[p]
                            ELSE check_failed[p] \cup {crew_id_of(p)}]
                      /\ IF got = "raise"
                         THEN /\ Leave(p, "crashed")
                              /\ failed' = [failed EXCEPT ![p] =
                                               failed[p] \cup {crew_id_of(p)}]
                              /\ UNCHANGED <<processed, suppressed, seen_to_notify>>
                         ELSE IF got = "None"
                         THEN /\ DocDone(p, Append(expired_certs_to_notify[p], di[p]))
                              /\ seen_to_notify' = [seen_to_notify EXCEPT ![p] =
                                               seen_to_notify[p] \cup {here}]
                              /\ UNCHANGED <<failed, suppressed>>
                         ELSE /\ DocDone(p, expired_certs_to_notify[p])
                              /\ suppressed' = [suppressed EXCEPT ![p] =
                                               suppressed[p] \cup {here}]
                              /\ UNCHANGED <<failed, seen_to_notify>>
           ELSE /\ DocDone(p, expired_certs_to_notify[p])
                /\ UNCHANGED <<failed, check_failed, suppressed, seen_to_notify,
                               store_failed>>
    /\ UNCHANGED <<all_crew_data, notification_log, clock, runs, sent>>
    /\ UNCHANGED <<log_at_start, dispatch_failed, dispatched, emailed, written>>
    /\ UNCHANGED history

\* mutant: the summary lists the documents last to first
expired_list_reversed(documents, to_notify) ==
    [k \in DOMAIN to_notify |->
        LET d == documents[to_notify[Len(to_notify) + 1 - k]]
        IN  <<"- ", d.document_certificate, " (Expired on ", d.expiry_date.s, ")">>]

\* line 157: one line per element of expired_certs_to_notify, in list order
\* (the lines are then joined by "\n")
expired_list(documents, to_notify) ==
    [k \in DOMAIN to_notify |->
        LET d == documents[to_notify[k]]
        IN  <<"- ", d.document_certificate, " (Expired on ", d.expiry_date.s, ")">>]

\* what a call of generate_email_body meets: no API key, an exception of the
\* service, a response whose text is empty, a response with text
GenOutcomes == {"no_key", "error", "empty", "text"}
GenFailures == {"no_key", "error"}

\* mutant: llmcheck.py's variant, which reports a failure as the body text
generate_email_body_llmcheck(outcome) ==
    IF outcome = "no_key" THEN PyStr(<<"Error: API key not set.">>)
    ELSE IF outcome = "error" THEN PyStr(<<"Error generating email: ">>)
    ELSE IF outcome = "empty" THEN PyStr(<<>>)
    ELSE PyStr(<<"text">>)

\* lines 38-50: None without a key or when the service raises, else the
\* response text
generate_email_body(outcome) ==
    IF outcome = "no_key" THEN PyNone
    ELSE IF outcome = "error" THEN PyNone
    ELSE IF outcome = "empty" THEN PyStr(<<>>)
    ELSE PyStr(<<"text">>)

\* what generate_email_body can return: None (no key, or the service raised),
\* or the response text, which may be empty
Bodies == {generate_email_body(outcome) : outcome \in GenOutcomes}

\* lines 156-170: build the prompt and call generate_email_body; an empty
\* or missing body short-circuits the `and`, send_email is not called
Generate(p) ==
    /\ UNCHANGED reports
    /\ pc[p] = "generate"
    /\ dispatched' = [dispatched EXCEPT ![p] = dispatched[p] \cup {crew_id_of(p)}]
    /\ attempted' = [attempted EXCEPT ![p] = attempted[p] \cup
          {[crew_id |-> crew_id_of(p), batch |-> expired_certs_to_notify[p],
            lines |-> expired_list(documents_of(p), expired_certs_to_notify[p])]}]
    /\ \E outcome \in GenOutcomes :
          LET body == generate_email_body(outcome)
          IN  /\ no_body' = [no_body EXCEPT ![p] =
                    IF outcome \in GenFailures THEN no_body[p] \cup {crew_id_of(p)}
                    ELSE no_body[p]]
              /\ IF Truthy(body)
                 THEN /\ pc' = [pc EXCEPT ![p] = "send"]
                      /\ email_body' = [email_body EXCEPT ![p] = body]
                      /\ UNCHANGED <<run_id, now, mi, di, expired_certs_to_notify, li,
                                     processed, dispatch_failed>>
                 ELSE /\ Continue(p)
                      /\ dispatch_failed' = [dispatch_failed EXCEPT ![p] =
                                                dispatch_failed[p] \cup {crew_id_of(p)}]
    /\ UNCHANGED globals
    /\ UNCHANGED <<log_at_start, failed, check_failed, suppressed, seen_to_notify,
                   emailed, written>>
    /\ UNCHANGED <<prev_failed, overlaps>>

\* lines 52-75 and 170-180: send_email returns True or False (it catches the
\* transport's exceptions); on True the logging loop starts
Send(p) ==
    /\ UNCHANGED reports
    /\ pc[p] = "send"
    /\ \E send_result \in BOOLEAN :
          /\ IF send_result
             THEN /\ sent' = sent \cup {[run |-> run_id[p], crew_id |-> crew_id_of(p),
                                         batch |-> expired_certs_to_notify[p]]}
                  /\ emailed' = [emailed EXCEPT ![p] = emailed[p] \cup {crew_id_of(p)}]
                  /\ UNCHANGED dispatch_failed
             ELSE /\ dispatch_failed' = [dispatch_failed EXCEPT ![p] =
                                            dispatch_failed[p] \cup {crew_id_of(p)}]
                  /\ UNCHANGED <<sent, emailed>>
          /\ IF dispatch_ok(email_body[p], send_result)
             THEN /\ pc' = [pc EXCEPT ![p] = "log"]
                  /\ li' = [li EXCEPT ![p] = 1]
                  /\ UNCHANGED <<run_id, now, mi, di, expired_certs_to_notify,
                                 email_body, processed>>
             ELSE Continue(p)
    /\ UNCHANGED <<all_crew_data, notification_log, clock, runs, store_failed>>
    /\ UNCHANGED <<log_at_start, failed, check_failed, suppressed, seen_to_notify,
                   dispatched, written>>
    /\ UNCHANGED history

\* lines 172-178: one iteration of the logging loop
LogStep(p) ==
    /\ UNCHANGED reports
    /\ pc[p] = "log"
    /\ LET d == expired_certs_to_notify[p][li[p]]
           doc_number == documents_of(p)[d].document_number
           key == logged_notification_id(doc_number)
       IN  \E store_up \in BOOLEAN :
             IF ~store_up
             THEN \* log_ref.set raises
                  /\ Leave(p, "crashed")
                  /\ store_failed' = TRUE
                  /\ failed' = [failed EXCEPT ![p] = failed[p] \cup {crew_id_of(p)}]
                  /\ UNCHANGED <<notification_log, written, processed>>
             ELSE /\ notification_log' =
                        log_ref_set(notification_log, crew_id_of(p), key, strftime(clock))
                  /\ written' = [written EXCEPT ![p] = written[p] \cup
                        {[crew_id |-> crew_id_of(p), doc |-> d, key |-> key, at |-> clock,
                          replaced |-> log_ref_get(notification_log, crew_id_of(p),
                                                   key, TRUE) = "value"]}]
                  /\ IF li[p] < Len(expired_certs_to_notify[p])
                     THEN /\ li' = [li EXCEPT ![p] = li[p] + 1]
                          /\ UNCHANGED <<pc, run_id, now, mi, di,
                                         expired_certs_to_notify, email_body, processed>>
                     ELSE Continue(p)
                  /\ UNCHANGED <<store_failed, failed>>
    /\ UNCHANGED <<all_crew_data, clock, runs, sent>>
    /\ UNCHANGED <<log_at_start, dispatch_failed, check_failed, suppressed,
                   seen_to_notify, dispatched, emailed>>
    /\ UNCHANGED history

\* one run at a time, each run to its end before the next starts
Step(p) ==
    \/ Start(p)
    \/ NextMember(p)
    \/ DocStep(p)
    \/ Generate(p)
    \/ Send(p)
    \/ LogStep(p)

Next == Tick \/ Step(1)

Spec == Init /\ [][Next]_vars

\* ------------------------------------------------------ report writers
\* mutant: a date that does not parse is filed as expired
finalcheck_classify_strict(doc, now_) ==
    IF ~Truthy(doc.expiry_date) THEN "expiry_not_mentioned"
    ELSE LET r == strptime(doc.expiry_date)
         IN  IF r.exc = "none" /\ r.dt > now_ THEN "valid" ELSE "expired"

\* finalcheck.py lines 119-129: the list a record is appended to
finalcheck_classify(doc, now_) ==
    IF ~Truthy(doc.expiry_date) THEN "expiry_not_mentioned"
    ELSE LET r == strptime(doc.expiry_date)
         IN  IF r.exc # "none" THEN "expiry_not_mentioned"
             ELSE IF r.dt > now_ THEN "valid" ELSE "expired"

\* membersdata.py lines 76-94: the list a record is appended to
membersdata_classify(doc, now_) ==
    IF ~Truthy(doc.expiry_date) THEN "expiry_not_mentioned"
    ELSE LET r == strptime(doc.expiry_date)
         IN  IF r.exc # "none" THEN "expiry_not_mentioned"
             ELSE IF r.dt > now_ THEN "valid" ELSE "expired"

\* [d.get('document_certificate', 'N/A') for d in certs]
Titles(certs) == [i \in DOMAIN certs |-> certs[i].document_certificate]

\* the three lists finalcheck.py builds for one member, as titles
finalcheck_lists(documents, now_) ==
    LET of(class) == SelectSeq(documents,
                        LAMBDA d : d.isdict /\ finalcheck_classify(d, now_) = class)
    IN  [valid |-> Titles(of("valid")),
         expired |-> Titles(of("expired")),
         expiry_not_mentioned |-> Titles(of("expiry_not_mentioned"))]

\* the three lists membersdata.py builds for one member, as records
membersdata_lists(documents, now_) ==
    LET of(class) == SelectSeq(documents,
                        LAMBDA d : d.isdict /\ membersdata_classify(d, now_) = class)
    IN  [valid |-> of("valid"),
         expired |-> of("expired"),
         expiry_not_mentioned |-> of("expiry_not_mentioned")]

\* the first member whose record is no dict ends the loop with AttributeError
FirstBad ==
    IF \A i \in DOMAIN CrewOrder : all_crew_data[CrewOrder[i]].isdict
    THEN Len(CrewOrder) + 1
    ELSE CHOOSE i \in DOMAIN CrewOrder :
            /\ ~all_crew_data[CrewOrder[i]].isdict
            /\ \A j \in 1..(i - 1) : all_crew_data[CrewOrder[j]].isdict
Reached == {CrewOrder[i] : i \in 1..(FirstBad - 1)}

\* mutant: the first member with a key keeps its entry
LastWithKey_first(k, keys, members) ==
    CrewOrder[CHOOSE i \in DOMAIN CrewOrder :
                /\ CrewOrder[i] \in members /\ keys[CrewOrder[i]] = k
                /\ \A j \in 1..(i - 1) :
                      ~(CrewOrder[j] \in members /\ keys[CrewOrder[j]] = k)]

\* the member whose lists end up under key k: the last one in loop order
LastWithKey(k, keys, members) ==
    CrewOrder[CHOOSE i \in DOMAIN CrewOrder :
                /\ CrewOrder[i] \in members /\ keys[CrewOrder[i]] = k
                /\ \A j \in (i + 1)..Len(CrewOrder) :
                      ~(CrewOrder[j] \in members /\ keys[CrewOrder[j]] = k)]

finalcheck_key(c) == all_crew_data[c].email.s

\* personal_details.get('email', f"no-email-found-for-{crew_id}")
membersdata_key(c) ==
    IF all_crew_data[c].email.t = "None" THEN <<"no-email-found-for-", c>>
    ELSE all_crew_data[c].email.s

\* finalcheck.py, analyze_and_notify_crew: classify every member that has an
\* email, try to email each one that has a classified document, then write
\* the report; nothing is written if the run fails before line 174
FinalcheckRun ==
    /\ \E outcome \in {"ok", "init_error", "fetch_error"} :
          IF outcome # "ok" \/ DOMAIN all_crew_data = {}
          THEN UNCHANGED <<finalcheck_report, finalcheck_emailed, finalcheck_no_body>>
          ELSE LET members == {c \in Reached : Truthy(all_crew_data[c].email)}
                   lists == [c \in members |->
                                finalcheck_lists(all_crew_data[c].documents, clock)]
                   prompted == {c \in members :
                                   \/ lists[c].expired # <<>>
                                   \/ lists[c].expiry_not_mentioned # <<>>
                                   \/ lists[c].valid # <<>>}
               IN  /\ finalcheck_report' =
                        IF FirstBad <= Len(CrewOrder) THEN finalcheck_report
                        ELSE [written |-> TRUE, time |-> clock,
                              results |->
                                 [k \in {finalcheck_key(c) : c \in members} |->
                                     lists[LastWithKey(k, [c \in CrewIds |-> finalcheck_key(c)],
                                                       members)]]]
                   \* lines 168-171: `if email_body: send_email(...)`
                   /\ \E gen \in [prompted -> GenOutcomes] :
                         LET with_body == {c \in DOMAIN gen :
                                             Truthy(generate_email_body(gen[c]))}
                         IN  \E send_result \in [with_body -> BOOLEAN] :
                               /\ finalcheck_emailed' = {c \in with_body : send_result[c]}
                               /\ finalcheck_no_body' =
                                     {c \in DOMAIN gen : gen[c] \in GenFailures}
    /\ UNCHANGED <<globals, locals, ghosts, history, notifier_view, membersdata_report>>

\* membersdata.py, analyze_crew_certifications
MembersdataRun ==
    /\ \E outcome \in {"ok", "init_error"} :
          IF outcome # "ok" \/ DOMAIN all_crew_data = {} \/ FirstBad <= Len(CrewOrder)
          THEN UNCHANGED membersdata_report
          ELSE membersdata_report' =
                  [written |-> TRUE, time |-> clock,
                   results |->
                      [k \in {membersdata_key(c) : c \in CrewIds} |->
                          membersdata_lists(
                              all_crew_data[LastWithKey(k,
                                  [c \in CrewIds |-> membersdata_key(c)], CrewIds)].documents,
                              clock)]]
    /\ UNCHANGED <<globals, locals, ghosts, history, notifier_view, finalcheck_report,
                   finalcheck_emailed, finalcheck_no_body>>

\* crew_notifier.py lines 122-137 applied to every entry of every member's
\* document list at the reference time
NotifierClassify ==
    /\ notifier_view' =
          [written |-> TRUE, time |-> clock,
           results |-> [c \in CrewIds |->
              [i \in DOMAIN all_crew_data[c].documents |->
                  IF all_crew_data[c].documents[i].isdict
                  THEN is_expired(all_crew_data[c].documents[i], clock)
                  ELSE "not_a_record"]]]
    /\ UNCHANGED <<globals, locals, ghosts, history, finalcheck_report, finalcheck_emailed,
                   finalcheck_no_body, membersdata_report>>

ClassifyPool == {dA, dB, dNoNum, dEmpty, dMissing, dBad, dNoDay, dIntDate, dNonDict}

ClassifyRosters ==
    {("c1" :> Member(TRUE, PyStr(<<"c1@x">>), ds)) @@ ("c2" :> b) :
        ds \in SeqsUpTo(ClassifyPool, MaxDocs), b \in SecondMembers}

\* the classification of a roster at a reference time, by each of the three
\* programs
InitClassify ==
    /\ all_crew_data \in ClassifyRosters
    /\ clock \in 0..MaxClock
    /\ InitRest

NextClassify == NotifierClassify \/ FinalcheckRun \/ MembersdataRun

SpecClassify == InitClassify /\ [][NextClassify]_vars

\* ------------------------------------------- the three programs together
\* rosters on which the notifier and the two report writers can be compared:
\* the second member may share the first one's contact email and may carry
\* malformed document data
SuiteFirstMembers ==
    {Member(TRUE, PyStr(<<"c1@x">>), ds) : ds \in SeqsUpTo({dA}, MaxDocs)}

SuiteSecondMembers ==
    SecondMembers \cup {Member(TRUE, PyStr(<<"c1@x">>), <<dBad, dNonDict>>)}

SuiteRosters ==
    {("c1" :> a) @@ ("c2" :> b) : a \in SuiteFirstMembers, b \in SuiteSecondMembers}

InitSuite ==
    /\ all_crew_data \in SuiteRosters
    /\ clock \in 0..MaxClock
    /\ InitRest

\* the notifier has not run yet
NotifierNotYet == runs = 0

\* runs of finalcheck.py and of membersdata.py in any order, then runs of the
\* notifier, against one roster at one reference time; the programs share
\* nothing but the roster, which none of them writes
NextSuite ==
    \/ Step(1)
    \/ NotifierNotYet /\ FinalcheckRun
    \/ NotifierNotYet /\ MembersdataRun

SpecSuite == InitSuite /\ [][NextSuite]_vars

\* ----------------------------------------------------- interleaved runs
\* two invocations of the notifier against one roster and one ledger, every
\* dated document having expired
ConcRosters ==
    {("c1" :> a) @@ ("c2" :> Member(TRUE, email, <<dHash>>)) :
        a \in SuiteFirstMembers, email \in {PyNone, PyStr(<<"c2@x">>)}}

InitConc ==
    /\ all_crew_data \in ConcRosters
    /\ clock = MaxClock
    /\ InitRest

NextConc == Step(1) \/ Step(2)

SpecConc == InitConc /\ [][NextConc]_vars

\* ================================================================ claims
Range(q) == {q[i] : i \in DOMAIN q}
DocAt(c, i) == all_crew_data[c].documents[i]
Ended(p) == pc[p] \in {"done", "crashed"}

\* a record whose expiry date parses to a time before t and which has a
\* document number that is a non-empty text
ExpiredNumbered(doc, t) ==
    /\ doc.isdict
    /\ doc.expiry_date.t = "str"
    /\ strptime(doc.expiry_date).exc = "none"
    /\ strptime(doc.expiry_date).dt < t
    /\ doc.document_number.t = "str"
    /\ doc.document_number.s # <<>>

\* C1 (convergence): as long as no ledger operation has failed, no document
\* of a crew member is part of two successfully sent emails, whatever the
\* dispatch outcomes of the runs were.
C1_Convergence ==
    ~store_failed =>
        \A e1, e2 \in sent :
            (e1 # e2 /\ e1.crew_id = e2.crew_id)
                => Range(e1.batch) \cap Range(e2.batch) = {}

\* a second run has ended in which a document emailed by the first run was
\* found in the ledger and left out
C1_Witness ==
    /\ ~store_failed
    /\ pc[1] = "done"
    /\ run_id[1] = 2
    /\ \E e \in sent, x \in suppressed[1] :
          e.run = 1 /\ e.crew_id = x.crew_id /\ x.doc \in Range(e.batch)

\* the ledger the run started with holds the key of every expired, numbered
\* document of the roster at the run's reference time
Covered(p) ==
    \A c \in CrewIds :
        \A i \in DOMAIN all_crew_data[c].documents :
            ExpiredNumbered(DocAt(c, i), now[p]) =>
                \E e \in log_at_start[p] :
                    /\ e.crew_id = c
                    /\ e.key = notification_id(DocAt(c, i).document_number)

\* C2 (idempotence): a run that starts with every expired, numbered document
\* already in the ledger never puts a document in a to-notify list, never
\* calls text generation or the email transport and never writes the ledger.
C2_Idempotence ==
    \A p \in Procs :
        (run_id[p] > 0 /\ Covered(p)) =>
            /\ seen_to_notify[p] = {}
            /\ expired_certs_to_notify[p] = <<>>
            /\ pc[p] \notin {"generate", "send", "log"}
            /\ dispatched[p] = {}
            /\ emailed[p] = {}
            /\ written[p] = {}

\* a run has gone over the whole roster, found an expired, numbered document
\* in the ledger, and the ledger covered all of them
C2_Witness ==
    /\ pc[1] = "done"
    /\ Covered(1)
    /\ suppressed[1] # {}
    /\ processed[1] = CrewIds

\* C3: every ledger write of a run is for a member whose email was confirmed
\* sent in that run; a member for whom no body was generated or whose send
\* reported failure gets no ledger write in that run.
C3_WriteOnlyAfterSend ==
    \A p \in Procs :
        /\ \A w \in written[p] : w.crew_id \in emailed[p]
        /\ \A c \in dispatch_failed[p] : \A w \in written[p] : w.crew_id # c

\* one run wrote the ledger for one member and failed to dispatch for another
C3_Witness ==
    /\ written[1] # {}
    /\ dispatch_failed[1] # {}
    /\ \E c \in dispatch_failed[1] : c \in dispatched[1]

\* C4: once the logging loop after a successful send has completed, every
\* document of the batch has been written under the key its existence check
\* used, and the ledger holds that key with the date of a recording.
C4_RecordedUnderCheckedKey ==
    \A p \in Procs :
        \A e \in sent :
            (e.run = run_id[p] /\ e.crew_id \in processed[p]) =>
                \A i \in Range(e.batch) :
                    LET key == notification_id(DocAt(e.crew_id, i).document_number)
                    IN  /\ \E w \in written[p] :
                              w.crew_id = e.crew_id /\ w.doc = i /\ w.key = key
                        /\ \E w \in written[p] :
                              /\ w.crew_id = e.crew_id
                              /\ w.key = key
                              /\ [crew_id |-> e.crew_id, key |-> key,
                                  value |-> strftime(w.at)] \in notification_log

\* a batch holding a document whose number needs sanitising was sent and
\* logged to the end
C4_Witness ==
    \E e \in sent :
        /\ e.run = run_id[1]
        /\ e.crew_id \in processed[1]
        /\ \E i \in Range(e.batch) :
              notification_id(DocAt(e.crew_id, i).document_number)
                  # <<"EXPIRED_">> \o DocAt(e.crew_id, i).document_number.s

\* C5 (no-track-no-notify): no document without a document number is ever
\* appended to a to-notify list or written to the ledger.
C5_NoTrackNoNotify ==
    \A p \in Procs :
        /\ \A x \in seen_to_notify[p] : Truthy(DocAt(x.crew_id, x.doc).document_number)
        /\ \A w \in written[p] : Truthy(DocAt(w.crew_id, w.doc).document_number)
        /\ \A i \in Range(expired_certs_to_notify[p]) :
              Truthy(DocAt(crew_id_of(p), i).document_number)

\* a run with a non-empty ledger has gone over a member who has an expired
\* document without a number
C5_Witness ==
    /\ pc[1] = "done"
    /\ notification_log # {}
    /\ \E c \in processed[1] :
          \E i \in DOMAIN all_crew_data[c].documents :
              /\ DocAt(c, i).isdict
              /\ ~Truthy(DocAt(c, i).document_number)
              /\ strptime(DocAt(c, i).expiry_date).exc = "none"
              /\ strptime(DocAt(c, i).expiry_date).dt < now[1]

\* C6 (fault isolation), as claimed: when a run is over and the processing of
\* some member failed, every other member (with a well-formed record, so that
\* its own processing cannot fail on reading it) has been processed in that run.
C6_FaultIsolation ==
    \A p \in Procs :
        (Ended(p) /\ failed[p] \cup dispatch_failed[p] # {}) =>
            \A c \in CrewIds \ failed[p] :
                all_crew_data[c].isdict => c \in processed[p]

\* C9, as claimed: a document left out of the to-notify list because its key
\* is in the ledger was, with that same document number, part of an email
\* successfully sent to that member.
C9_SuppressedWasSent ==
    \A p \in Procs :
        \A x \in suppressed[p] :
            \E e \in sent :
                /\ e.crew_id = x.crew_id
                /\ \E j \in Range(e.batch) :
                      DocAt(e.crew_id, j).document_number
                          = DocAt(x.crew_id, x.doc).document_number

\* C10: a member for whom an existence check met an unavailable store gets,
\* in that run, no email and no ledger write.
C10_FailedCheckSkips ==
    \A p \in Procs :
        \A c \in check_failed[p] :
            /\ c \notin emailed[p]
            /\ c \notin dispatched[p]
            /\ \A w \in written[p] : w.crew_id # c

\* the store failed on the check of a member's second document, after the
\* first one had been put on the to-notify list
C10_Witness ==
    \E c \in check_failed[1] :
        /\ pc[1] = "crashed"
        /\ \E x \in seen_to_notify[1] : x.crew_id = c

\* ------------------------------------------------ classification claims
Count(q, x) == Cardinality({i \in DOMAIN q : q[i] = x})
Classes == {"valid", "expired", "expiry_not_mentioned"}

\* the expiry date is missing, empty, no text, or names no date
Unparseable(doc) ==
    \/ doc.expiry_date.t # "str"
    \/ doc.expiry_date.s = <<>>
    \/ strptime(doc.expiry_date).exc # "none"

RecordsOf(c) ==
    {i \in DOMAIN all_crew_data[c].documents : DocAt(c, i).isdict}

\* the lists of a written report hold each record of the member exactly once
\* (x[i] is what the report stores for the member's i-th entry), and no
\* unparseable record is listed as expired
ListsPartition(lists, c, x) ==
    \A i \in RecordsOf(c) :
        /\ Count(lists.valid, x[i]) + Count(lists.expired, x[i])
              + Count(lists.expiry_not_mentioned, x[i])
           = Cardinality({j \in RecordsOf(c) : x[j] = x[i]})
        /\ Cardinality({k \in Classes : Count(lists[k], x[i]) > 0}) = 1
        /\ Unparseable(DocAt(c, i)) => Count(lists.expired, x[i]) = 0

TitleOf(d) == d.document_certificate

\* C7 (classification totality): each program files every document record in
\* exactly one class, and none of them treats a record whose expiry date is
\* missing, empty or unparseable as expired.
C7_ClassificationTotal ==
    \A c \in CrewIds :
        /\ (finalcheck_report.written /\ Truthy(all_crew_data[c].email)) =>
              ListsPartition(finalcheck_report.results[finalcheck_key(c)], c,
                             Titles(all_crew_data[c].documents))
        /\ membersdata_report.written =>
              ListsPartition(membersdata_report.results[membersdata_key(c)], c,
                             all_crew_data[c].documents)
        /\ notifier_view.written =>
              \A i \in RecordsOf(c) :
                  /\ notifier_view.results[c][i] \in {"expired", "not_expired", "skip"}
                  /\ Unparseable(DocAt(c, i)) => notifier_view.results[c][i] # "expired"

\* all three programs have classified a member that has a record with a
\* malformed date and a record with a date in the past
C7_Witness ==
    /\ finalcheck_report.written
    /\ membersdata_report.written
    /\ notifier_view.written
    /\ \E i, j \in RecordsOf("c1") :
          /\ Truthy(DocAt("c1", i).expiry_date) /\ Unparseable(DocAt("c1", i))
          /\ ~Unparseable(DocAt("c1", j))
          /\ notifier_view.results["c1"][j] = "expired"

\* C8 (classification boundary), as claimed: in the notifier and in both
\* reports a record whose date is before the reference time is expired and
\* one whose date is at or after the reference time is valid.
C8_SameBoundary ==
    \A c \in CrewIds :
        \A i \in RecordsOf(c) :
            LET d == DocAt(c, i)
                before(t) == strptime(d.expiry_date).dt < t
            IN  ~Unparseable(d) =>
                  /\ notifier_view.written =>
                        notifier_view.results[c][i] =
                            IF before(notifier_view.time) THEN "expired" ELSE "not_expired"
                  /\ (finalcheck_report.written /\ Truthy(all_crew_data[c].email)) =>
                        LET lists == finalcheck_report.results[finalcheck_key(c)]
                        IN  IF before(finalcheck_report.time)
                            THEN Count(lists.expired, TitleOf(d)) > 0
                            ELSE Count(lists.valid, TitleOf(d)) > 0
                  /\ membersdata_report.written =>
                        LET lists == membersdata_report.results[membersdata_key(c)]
                        IN  IF before(membersdata_report.time)
                            THEN Count(lists.expired, d) > 0
                            ELSE Count(lists.valid, d) > 0

\* C11 (retry after a failed dispatch): when a dispatch failed for a crew
\* member in the run before, and this run has the same reference time and has
\* processed that member, this run has attempted a dispatch for the member
\* with exactly the list of documents the failed run had computed.
C11_RetrySameList ==
    \A p \in Procs :
        \A f \in prev_failed[p] :
            f.crew_id \in processed[p] => f \in attempted[p]

\* a run has processed, at the same reference time, a member whose dispatch
\* failed in the run before, and has attempted the dispatch again
C11_Witness ==
    \E f \in prev_failed[1] :
        /\ f.crew_id \in processed[1]
        /\ f.crew_id \in dispatched[1]
        /\ ~store_failed

\* C12 (no body, no email): a crew member for whom text generation failed or
\* was not configured in a run is sent no email by that run, in the notifier
\* and in finalcheck.py alike.
C12_NoBodyNoEmail ==
    /\ \A p \in Procs :
          \A c \in no_body[p] :
              /\ c \notin emailed[p]
              /\ \A e \in sent : ~(e.run = run_id[p] /\ e.crew_id = c)
    /\ finalcheck_no_body \cap finalcheck_emailed = {}

\* text generation has failed for a member in a run of each program, while
\* another member of finalcheck.py's run did get an email
C12_Witness ==
    /\ no_body[1] # {}
    /\ finalcheck_no_body # {}
    /\ finalcheck_emailed # {}

\* the key the claim describes: the prefix, then the document number with
\* each '.', '/' and '#' turned into '_' and every other character kept
ExpectedKey(number) ==
    <<"EXPIRED_">> \o [i \in DOMAIN number.s |->
                          IF number.s[i] \in {".", "/", "#"} THEN "_" ELSE number.s[i]]

\* the keys a run has used: those it checked and those it wrote
KeysUsed(p) ==
    {[crew_id |-> x.crew_id, doc |-> x.doc, key |-> x.key] :
        x \in seen_to_notify[p] \cup suppressed[p] \cup written[p]}

\* C13 (key derivation): every notification key a run checks or writes is
\* EXPIRED_ followed by the document number with each '.', '/' and '#'
\* replaced by '_' and nothing else changed; the same number always gives
\* the same key, and "A.1/2#3" gives EXPIRED_A_1_2_3.
C13_KeyDerivation ==
    \A p \in Procs :
        \A x \in KeysUsed(p) :
            LET number == DocAt(x.crew_id, x.doc).document_number
            IN  /\ x.key = ExpectedKey(number)
                /\ \A y \in KeysUsed(p) :
                      DocAt(y.crew_id, y.doc).document_number = number => y.key = x.key
                /\ number.s = <<"A", ".", "1", "/", "2", "#", "3">>
                      => x.key = <<"EXPIRED_", "A", "_", "1", "_", "2", "_", "3">>

\* the document numbered "A.1/2#3" has been checked and written under its key
C13_Witness ==
    /\ \E x \in seen_to_notify[1] :
          DocAt(x.crew_id, x.doc).document_number.s = <<"A", ".", "1", "/", "2", "#", "3">>
    /\ \E w \in written[1] : w.key = <<"EXPIRED_", "A", "_", "1", "_", "2", "_", "3">>

\* the titles a written report lists anywhere
ReportedTitles(report) ==
    UNION {Range(report.results[k].valid) \cup Range(report.results[k].expired)
              \cup Range(report.results[k].expiry_not_mentioned) :
           k \in DOMAIN report.results}

\* C14 (member without contact email): such a member is never sent an email
\* and never gets a ledger entry, and every document record of the member
\* still appears in the classification report a run has written.
C14_NoEmailStillClassified ==
    \A c \in CrewIds :
        (all_crew_data[c].isdict /\ ~Truthy(all_crew_data[c].email)) =>
            /\ \A e \in sent : e.crew_id # c
            /\ c \notin finalcheck_emailed
            /\ \A e \in notification_log : e.crew_id # c
            /\ finalcheck_report.written =>
                  \A d \in RecordsOf(c) :
                      TitleOf(DocAt(c, d)) \in ReportedTitles(finalcheck_report)
            /\ membersdata_report.written =>
                  \A d \in RecordsOf(c) :
                      \E q \in {"valid", "expired", "expiry_not_mentioned"} :
                          DocAt(c, d) \in
                              Range(membersdata_report.results[membersdata_key(c)][q])

\* members with a contact email
WithEmail == {c \in CrewIds : all_crew_data[c].isdict /\ Truthy(all_crew_data[c].email)}

\* no member later in the loop has the same contact email
LastOfEmail(c) ==
    \A i, j \in DOMAIN CrewOrder :
        (CrewOrder[i] = c /\ j > i /\ CrewOrder[j] \in WithEmail)
            => all_crew_data[CrewOrder[j]].email # all_crew_data[c].email

\* C15 as stated (report independent of dispatch): a written report holds
\* for every member with a contact email that member's own classification.
C15_OwnClassification ==
    \A c \in WithEmail :
        /\ finalcheck_report.written =>
              /\ finalcheck_key(c) \in DOMAIN finalcheck_report.results
              /\ finalcheck_report.results[finalcheck_key(c)]
                    = finalcheck_lists(all_crew_data[c].documents, finalcheck_report.time)
        /\ membersdata_report.written =>
              /\ membersdata_key(c) \in DOMAIN membersdata_report.results
              /\ membersdata_report.results[membersdata_key(c)]
                    = membersdata_lists(all_crew_data[c].documents, membersdata_report.time)

\* C15 (amended): a written report holds under every contact email the
\* classification of the last member in loop order that has this email, so
\* each member whose email no later member shares finds its own
\* classification there, whatever text generation and sending did.
C15_LastOfEmailClassification ==
    \A c \in WithEmail :
        /\ finalcheck_report.written =>
              /\ finalcheck_key(c) \in DOMAIN finalcheck_report.results
              /\ LastOfEmail(c) =>
                    finalcheck_report.results[finalcheck_key(c)]
                      = finalcheck_lists(all_crew_data[c].documents, finalcheck_report.time)
        /\ membersdata_report.written =>
              /\ membersdata_key(c) \in DOMAIN membersdata_report.results
              /\ LastOfEmail(c) =>
                    membersdata_report.results[membersdata_key(c)]
                      = membersdata_lists(all_crew_data[c].documents, membersdata_report.time)

\* both reports are written for two members sharing one email, the first of
\* them with a document of its own, in a run of finalcheck.py in which text
\* generation failed for a member
C15_Witness ==
    /\ finalcheck_report.written
    /\ membersdata_report.written
    /\ finalcheck_no_body # {}
    /\ all_crew_data["c1"].documents # <<>>
    /\ all_crew_data["c2"].isdict
    /\ all_crew_data["c2"].email = all_crew_data["c1"].email

\* a record whose expiry date is given but does not match DATE_FORMAT
BadDate(doc) ==
    /\ doc.isdict
    /\ Truthy(doc.expiry_date)
    /\ strptime(doc.expiry_date).exc # "none"

\* the entries of a member's document list that are malformed
MalformedOf(c) ==
    {i \in DOMAIN all_crew_data[c].documents : ~DocAt(c, i).isdict \/ BadDate(DocAt(c, i))}

\* a report entry files the bad-date record under expiry_not_mentioned only
\* (x is what the report stores for the record)
FiledUnknown(lists, x) ==
    /\ x \in Range(lists.expiry_not_mentioned)
    /\ x \notin Range(lists.valid) \cup Range(lists.expired)

\* the notifier neither notifies a malformed entry nor ends on one
NotifierIgnoresMalformed ==
    \A p \in Procs :
        /\ \A x \in seen_to_notify[p] \cup suppressed[p] \cup written[p] :
              x.doc \notin MalformedOf(x.crew_id)
        /\ \A e \in sent : Range(e.batch) \cap MalformedOf(e.crew_id) = {}
        /\ \A c \in failed[p] :
              \/ store_failed
              \/ ~all_crew_data[c].isdict
              \/ \E i \in DOMAIN all_crew_data[c].documents :
                    DocDecision(DocAt(c, i), now[p]) = "AttributeError"

\* C16 as stated (malformed data is StatusUnknown): every malformed entry,
\* record or not, is reported under expiry_not_mentioned and under no other
\* list, is never notified, and does not end the run.
C16_MalformedIsUnknown ==
    /\ NotifierIgnoresMalformed
    /\ \A c \in WithEmail :
          LastOfEmail(c) =>
            /\ finalcheck_report.written =>
                  LET lists == finalcheck_report.results[finalcheck_key(c)]
                  IN  /\ Len(lists.expiry_not_mentioned) >= Cardinality(MalformedOf(c))
                      /\ \A i \in MalformedOf(c) \cap RecordsOf(c) :
                            FiledUnknown(lists, TitleOf(DocAt(c, i)))
            /\ membersdata_report.written =>
                  \A i \in MalformedOf(c) :
                      FiledUnknown(membersdata_report.results[membersdata_key(c)],
                                   DocAt(c, i))

\* C16 (amended): a record with a badly formed expiry date is reported under
\* expiry_not_mentioned and under no other list; an entry that is no record
\* is left out of every list; neither is ever notified or ends the run.
C16_MalformedSkippedOrUnknown ==
    /\ NotifierIgnoresMalformed
    /\ \A c \in WithEmail :
          LastOfEmail(c) =>
            /\ finalcheck_report.written =>
                  LET lists == finalcheck_report.results[finalcheck_key(c)]
                  IN  /\ Len(lists.valid) + Len(lists.expired)
                            + Len(lists.expiry_not_mentioned) = Cardinality(RecordsOf(c))
                      /\ \A i \in MalformedOf(c) \cap RecordsOf(c) :
                            FiledUnknown(lists, TitleOf(DocAt(c, i)))
            /\ membersdata_report.written =>
                  LET lists == membersdata_report.results[membersdata_key(c)]
                  IN  \A i \in MalformedOf(c) :
                        IF DocAt(c, i).isdict
                        THEN FiledUnknown(lists, DocAt(c, i))
                        ELSE DocAt(c, i) \notin Range(lists.valid) \cup Range(lists.expired)
                                            \cup Range(lists.expiry_not_mentioned)

\* a member with a badly dated record and an entry that is no record has been
\* processed by the notifier without a dispatch and is in both reports
C16_Witness ==
    /\ \E c \in WithEmail :
          /\ LastOfEmail(c)
          /\ MalformedOf(c) \cap RecordsOf(c) # {}
          /\ MalformedOf(c) \ RecordsOf(c) # {}
          /\ c \in processed[1]
          /\ c \notin dispatched[1]
    /\ pc[1] = "done"
    /\ now[1] > 0
    /\ finalcheck_report.written
    /\ membersdata_report.written

\* the ledger holds an entry for the member's document
HasEntry(c, d) ==
    \E e \in notification_log :
        e.crew_id = c /\ e.key = ExpectedKey(DocAt(c, d).document_number)

\* C17 (dispatch and recording are atomic in effect): when a run has ended,
\* for every batch it tried to dispatch either the email was sent and every
\* document of the batch has a ledger entry, or the email was not sent and
\* the run wrote no entry for the member; a failing ledger write included.
C17_AtomicDispatch ==
    \A p \in Procs :
        Ended(p) =>
            \A a \in attempted[p] :
                \/ /\ a.crew_id \in emailed[p]
                   /\ \A d \in Range(a.batch) : HasEntry(a.crew_id, d)
                \/ /\ a.crew_id \notin emailed[p]
                   /\ \A w \in written[p] : w.crew_id # a.crew_id

\* the document numbers of every member's records are pairwise different
UniqueNumbers ==
    \A c \in CrewIds :
        \A i, j \in RecordsOf(c) :
            i # j => DocAt(c, i).document_number # DocAt(c, j).document_number

\* C18 (frame): on a roster whose document numbers are unique within each
\* member, a run keeps every ledger entry it found, never writes to a path
\* that already holds an entry, and writes only under the notification_log
\* of the member whose document the key belongs to.
C18_OnlyNewEntries ==
    UniqueNumbers =>
        \A p \in Procs :
            /\ run_id[p] > 0 => log_at_start[p] \subseteq notification_log
            /\ \A w \in written[p] :
                  /\ ~w.replaced
                  /\ w.doc \in DOMAIN all_crew_data[w.crew_id].documents
                  /\ w.key = ExpectedKey(DocAt(w.crew_id, w.doc).document_number)

\* two confirmed emails to one member that share a document
DoubleEmails ==
    {pair \in sent \X sent :
        /\ pair[1].run < pair[2].run
        /\ pair[1].crew_id = pair[2].crew_id
        /\ Range(pair[1].batch) \cap Range(pair[2].batch) # {}}

\* C19 (check-then-write is not exclusive): while the ledger store works, a
\* document is emailed twice only by two runs that were under way at the
\* same time; runs carried out one after another never email it twice.
C19_DoubleOnlyWhenInterleaved ==
    ~store_failed =>
        \A pair \in DoubleEmails : {pair[1].run, pair[2].run} \in overlaps

\* two interleaved runs have both emailed the same document, the store
\* having worked all along
C19_Witness ==
    /\ ~store_failed
    /\ DoubleEmails # {}
    /\ \A p \in Procs : Ended(p)

\* the member's document has been part of a confirmed email
WasEmailed(c, d) == \E e \in sent : e.crew_id = c /\ d \in Range(e.batch)

\* C20 (progress), in the form a finite run refutes: once a run has gone
\* through the whole roster with a working store and with every dispatch it
\* attempted succeeding, nothing is left for later runs to send, so every
\* expired, numbered document of every member with a contact email must by
\* then have been part of a confirmed email and have a ledger entry (document
\* numbers being unique within each member).
C20_CleanRunLeavesNothing ==
    UniqueNumbers =>
        \A p \in Procs :
            (/\ pc[p] = "done"
             /\ processed[p] = CrewIds
             /\ dispatch_failed[p] = {}
             /\ ~store_failed)
            => \A c \in WithEmail :
                  \A d \in DOMAIN all_crew_data[c].documents :
                      ExpiredNumbered(DocAt(c, d), now[p])
                          => WasEmailed(c, d) /\ HasEntry(c, d)

\* the indices of a list of documents go up strictly
InInputOrder(q) == \A i, j \in DOMAIN q : i < j => q[i] < q[j]

\* C21 (document order): the to-notify list of a member, while it is built
\* and when it is dispatched, holds the documents in the order of the
\* member's input document list, and the summary has one line per document
\* of the list in that same order.
C21_InputOrderKept ==
    \A p \in Procs :
        /\ InInputOrder(expired_certs_to_notify[p])
        /\ \A a \in attempted[p] :
              /\ InInputOrder(a.batch)
              /\ Len(a.lines) = Len(a.batch)
              /\ \A k \in DOMAIN a.batch :
                    LET d == DocAt(a.crew_id, a.batch[k])
                    IN  /\ a.lines[k][2] = d.document_certificate
                        /\ a.lines[k][4] = d.expiry_date.s

\* a dispatch has been attempted for two different documents of one member
C21_Witness ==
    \E a \in attempted[1] :
        /\ Len(a.batch) = 2
        /\ a.lines[1] # a.lines[2]
====
